---- MODULE Spec2Model ----
(***************************************************************************)
(* The virtual machine of the spacey whitespace interpreter                *)
(* (src/src/interpreter/interpreter.rs): Interpreter::new's two-pass label *)
(* resolution, next_instruction / exec / run / reset, and the five         *)
(* operation families stack, arithmetic, heap, flow and io.                *)
(*                                                                         *)
(* Vectors are sequences: the Rust index i is the TLA+ index i + 1.        *)
(***************************************************************************)
EXTENDS Integers, Sequences, FiniteSets, TLC

\* ------------------------------------------------------------------ bounds

\* Longest program of the exhaustively enumerated family.
MaxLen == 2
\* Longest tail run after a setup.
MaxTail == 1
\* Largest configured heap size (the other configured size is 0).
MaxHeap == 2
\* Instructions one interpreter executes between two resets (cuts loops).
MaxSteps == 16

\* ------------------------------------------------------- program constants

Int32Max == 2147483647
Int32Min == (-2147483647) - 1

\* The position a label operand carries before Interpreter::new resolves it.
PlaceholderIndex == 0

\* ------------------------------------------------------------ instructions

NoParam == [kind |-> "None", num |-> 0, label |-> "", index |-> 0]
Number(n) == [kind |-> "Number", num |-> n, label |-> "", index |-> 0]
Label(l, i) == [kind |-> "Label", num |-> 0, label |-> l, index |-> i]

Instruction(imp, cmd, param) == [imp |-> imp, cmd |-> cmd, param |-> param]

Push(n) == Instruction("Stack", "PushStack", Number(n))
Duplicate == Instruction("Stack", "DuplicateStack", NoParam)
CopyNth(n) == Instruction("Stack", "CopyNthStack", Number(n))
Swap == Instruction("Stack", "SwapStack", NoParam)
Discard == Instruction("Stack", "DiscardStack", NoParam)
SlideN(n) == Instruction("Stack", "SlideNStack", Number(n))
Add == Instruction("Arithmetic", "Add", NoParam)
Subtract == Instruction("Arithmetic", "Subtract", NoParam)
Multiply == Instruction("Arithmetic", "Multiply", NoParam)
IntegerDivision == Instruction("Arithmetic", "IntegerDivision", NoParam)
Modulo == Instruction("Arithmetic", "Modulo", NoParam)
Store == Instruction("Heap", "StoreHeap", NoParam)
Retrieve == Instruction("Heap", "RetrieveHeap", NoParam)
\* A label operand as the parser delivers it: its position is not yet set.
Mark(l) == Instruction("Flow", "Mark", Label(l, PlaceholderIndex))
Call(l) == Instruction("Flow", "Call", Label(l, PlaceholderIndex))
Jump(l) == Instruction("Flow", "Jump", Label(l, PlaceholderIndex))
JumpZero(l) == Instruction("Flow", "JumpZero", Label(l, PlaceholderIndex))
JumpNegative(l) == Instruction("Flow", "JumpNegative", Label(l, PlaceholderIndex))
Return == Instruction("Flow", "Return", NoParam)
Exit == Instruction("Flow", "Exit", NoParam)
OutCharacter == Instruction("IO", "OutCharacter", NoParam)
OutInteger == Instruction("IO", "OutInteger", NoParam)
ReadCharacter == Instruction("IO", "ReadCharacter", NoParam)
ReadInteger == Instruction("IO", "ReadInteger", NoParam)

\* What stands where no instruction is meant (no error, nothing executed yet).
NoInstr == Instruction("", "", NoParam)

\* ------------------------------------------------------------------ results

\* Result<(), Box<dyn Error>> of a handler, of exec and of run. "Panic" is no
\* return at all: the thread unwinds out of the interpreter.
Ok == [kind |-> "Ok", instr |-> NoInstr, num |-> 0, low |-> 0, high |-> 0]
Err(kind, instr) == [kind |-> kind, instr |-> instr, num |-> 0, low |-> 0, high |-> 0]
ParseLogicError(instr) == Err("ParseLogicError", instr)
StackUnderflow(instr) == Err("StackUnderflow", instr)
NumberOutOfBoundsError(instr, num, low, high) ==
    [kind |-> "NumberOutOfBoundsError", instr |-> instr, num |-> num, low |-> low, high |-> high]
NoTermination(instr) == Err("NoTermination", instr)
StdinError(instr) == Err("StdinError", instr)
\* The boxed std errors that `?` passes on: std::io::Error and ParseIntError.
IoError == Err("IoError", NoInstr)
ParseIntError == Err("ParseIntError", NoInstr)
Panic == Err("Panic", NoInstr)
\* run() has not returned (yet).
NoResult == Err("None", NoInstr)

\* What a handler leaves behind: the machine and the handler's result.
Out(m, res) == [m |-> m, res |-> res]

\* Vec::pop and Vec::last on a non-empty vector.
Front(s) == SubSeq(s, 1, Len(s) - 1)
Last(s) == s[Len(s)]
\* Vec::pop called n times, the Nones of an emptied vector ignored.
PopN(s, n) == IF n >= Len(s) THEN << >> ELSE SubSeq(s, 1, Len(s) - n)

\* --------------------------------------------------------- stack family

PushStack(instr, m) ==
    IF instr.param.kind = "Number"
    THEN Out([m EXCEPT !.stack = Append(@, instr.param.num)], Ok)
    ELSE Out(m, ParseLogicError(instr))

DuplicateStack(instr, m) ==
    IF Len(m.stack) > 0
    THEN LET val == Last(m.stack)
         IN  Out([m EXCEPT !.stack = Append(Append(Front(@), val), val)], Ok)
    ELSE Out(m, StackUnderflow(instr))

\* CopyNthStack counting the position from the top of the stack.
CopyNthFromTop(instr, m) ==
    IF instr.param.kind = "Number"
    THEN LET addr == instr.param.num
         IN  IF addr < 0 \/ addr >= Len(m.stack)
             THEN Out(m, NumberOutOfBoundsError(instr, addr, 0, Len(m.stack) - 1))
             ELSE Out([m EXCEPT !.stack = Append(@, m.stack[Len(m.stack) - addr])], Ok)
    ELSE Out(m, ParseLogicError(instr))

CopyNthStack(instr, m) ==
    IF instr.param.kind = "Number"
    THEN LET addr == instr.param.num
         IN  IF addr < 0 \/ addr >= Len(m.stack)
             THEN Out(m, NumberOutOfBoundsError(instr, addr, 0, Len(m.stack) - 1))
             ELSE Out([m EXCEPT !.stack = Append(@, m.stack[addr + 1])], Ok)
    ELSE Out(m, ParseLogicError(instr))

SwapStack(instr, m) ==
    IF Len(m.stack) > 0
    THEN LET val == Last(m.stack)
             popped == [m EXCEPT !.stack = Front(@)]
         IN  IF Len(popped.stack) > 0
             THEN LET other == Last(popped.stack)
                  IN  Out([m EXCEPT !.stack = Append(Append(Front(popped.stack), val), other)], Ok)
             ELSE Out(popped, StackUnderflow(instr))
    ELSE Out(m, StackUnderflow(instr))

\* DiscardStack removing the value beneath the top where there is one.
DiscardStackBeneath(instr, m) ==
    IF Len(m.stack) > 1
    THEN Out([m EXCEPT !.stack = Append(Front(Front(@)), Last(m.stack))], Ok)
    ELSE IF Len(m.stack) > 0
         THEN Out([m EXCEPT !.stack = Front(@)], Ok)
         ELSE Out(m, StackUnderflow(instr))

DiscardStack(instr, m) ==
    IF Len(m.stack) > 0
    THEN Out([m EXCEPT !.stack = Front(@)], Ok)
    ELSE Out(m, StackUnderflow(instr))

\* SlideNStack discarding its N values with the top still on the stack.
SlideNTopIncluded(instr, m) ==
    IF Len(m.stack) > 0
    THEN LET top == Last(m.stack)
             popped == [m EXCEPT !.stack = Front(@)]
         IN  IF instr.param.kind = "Number"
             THEN LET val == instr.param.num
                  IN  IF val < 0
                      THEN Out(popped, NumberOutOfBoundsError(instr, val, 0, Int32Max))
                      ELSE Out([m EXCEPT !.stack = Append(PopN(m.stack, val), top)], Ok)
             ELSE Out(popped, ParseLogicError(instr))
    ELSE Out(m, StackUnderflow(instr))

SlideNStack(instr, m) ==
    IF Len(m.stack) > 0
    THEN LET top == Last(m.stack)
             popped == [m EXCEPT !.stack = Front(@)]
         IN  IF instr.param.kind = "Number"
             THEN LET val == instr.param.num
                  IN  IF val < 0
                      THEN Out(popped, NumberOutOfBoundsError(instr, val, 0, Int32Max))
                      ELSE Out([m EXCEPT !.stack = Append(PopN(popped.stack, val), top)], Ok)
             ELSE Out(popped, ParseLogicError(instr))
    ELSE Out(m, StackUnderflow(instr))

Stack(instr, m) ==
    CASE instr.cmd = "PushStack" -> PushStack(instr, m)
      [] instr.cmd = "DuplicateStack" -> DuplicateStack(instr, m)
      [] instr.cmd = "CopyNthStack" -> CopyNthStack(instr, m)
      [] instr.cmd = "SwapStack" -> SwapStack(instr, m)
      [] instr.cmd = "DiscardStack" -> DiscardStack(instr, m)
      [] instr.cmd = "SlideNStack" -> SlideNStack(instr, m)
      [] OTHER -> Out(m, ParseLogicError(instr))

\* ---------------------------------------------------- arithmetic family

Abs(x) == IF x < 0 THEN -x ELSE x

\* i32 `+`, `-` and `*` leave the signed 32-bit range exactly when these hold.
AddOverflows(a, b) ==
    \/ a > 0 /\ b > 0 /\ b > Int32Max - a
    \/ a < 0 /\ b < 0 /\ b < Int32Min - a
SubOverflows(a, b) ==
    \/ a >= 0 /\ b < 0 /\ a > Int32Max + b
    \/ a < 0 /\ b > 0 /\ a < Int32Min + b

\* The two's-complement results (i32::wrapping_add, wrapping_sub), computed
\* without leaving the 32-bit range on the way.
WrappingAdd(a, b) ==
    IF a > 0 /\ b > 0 /\ b > Int32Max - a
    THEN (a - Int32Max - 1) + (b - Int32Max - 1)
    ELSE IF a < 0 /\ b < 0 /\ b < Int32Min - a
         THEN (a + Int32Max + 1) + (b + Int32Max + 1)
         ELSE a + b
WrappingSub(a, b) ==
    IF a >= 0 /\ b < 0 /\ a > Int32Max + b
    THEN (a - Int32Max - 1) - (b + Int32Max + 1)
    ELSE IF a < 0 /\ b > 0 /\ a < Int32Min + b
         THEN (a + Int32Max + 1) - (b - Int32Max - 1)
         ELSE a - b

\* i32 `/` and `%`: the quotient truncates toward zero and the remainder takes
\* the dividend's sign. Defined for b # 0 and (a, b) # (Int32Min, -1).
TruncDiv(a, b) ==
    IF b = Int32Min THEN (IF a = Int32Min THEN 1 ELSE 0)
    ELSE IF a = Int32Min
         THEN IF b = 1 THEN Int32Min
              ELSE LET q == ((Int32Max - Abs(b) + 1) \div Abs(b)) + 1
                   IN  IF b > 0 THEN -q ELSE q
         ELSE LET q == Abs(a) \div Abs(b)
              IN  IF (a < 0) # (b < 0) THEN -q ELSE q
TruncRem(a, b) == a - b * TruncDiv(a, b)

MulOverflows(a, b) ==
    \/ a > 0 /\ b > 0 /\ a > Int32Max \div b
    \/ a > 0 /\ b < 0 /\ b < TruncDiv(Int32Min, a)
    \/ a < 0 /\ b > 0 /\ a < TruncDiv(Int32Min, b)
    \/ a < 0 /\ b < 0 /\ (a = Int32Min \/ b = Int32Min \/ (-a) > Int32Max \div (-b))

RECURSIVE WrappingMul(_, _)
WrappingMul(a, b) ==
    IF b = 0 THEN 0
    ELSE IF b = Int32Min THEN (IF a % 2 = 0 THEN 0 ELSE Int32Min)
    ELSE IF b < 0 THEN WrappingSub(0, WrappingMul(a, -b))
    ELSE LET half == WrappingMul(a, b \div 2)
             dbl == WrappingAdd(half, half)
         IN  IF b % 2 = 1 THEN WrappingAdd(dbl, a) ELSE dbl

\* Both operands popped, right first. `checks` is the build's overflow-checks
\* setting: with it an overflowing `+`, `-`, `*` panics, without it wraps.
BinaryOperands(instr, m) ==
    IF Len(m.stack) > 0
    THEN LET popped == [m EXCEPT !.stack = Front(@)]
         IN  IF Len(popped.stack) > 0
             THEN [ok |-> TRUE, right |-> Last(m.stack), left |-> Last(popped.stack),
                   m |-> [m EXCEPT !.stack = Front(popped.stack)]]
             ELSE [ok |-> FALSE, right |-> 0, left |-> 0, m |-> popped]
    ELSE [ok |-> FALSE, right |-> 0, left |-> 0, m |-> m]

PushResult(m, val) == Out([m EXCEPT !.stack = Append(@, val)], Ok)

AddOp(instr, m, checks) ==
    LET ops == BinaryOperands(instr, m)
    IN  IF ops.ok
        THEN IF AddOverflows(ops.left, ops.right) /\ checks
             THEN Out(ops.m, Panic)
             ELSE PushResult(ops.m, WrappingAdd(ops.left, ops.right))
        ELSE Out(ops.m, StackUnderflow(instr))

\* SubtractOp with the operands taken the other way round.
SubtractOpReversed(instr, m, checks) ==
    LET ops == BinaryOperands(instr, m)
    IN  IF ops.ok
        THEN IF SubOverflows(ops.right, ops.left) /\ checks
             THEN Out(ops.m, Panic)
             ELSE PushResult(ops.m, WrappingSub(ops.right, ops.left))
        ELSE Out(ops.m, StackUnderflow(instr))

SubtractOp(instr, m, checks) ==
    LET ops == BinaryOperands(instr, m)
    IN  IF ops.ok
        THEN IF SubOverflows(ops.left, ops.right) /\ checks
             THEN Out(ops.m, Panic)
             ELSE PushResult(ops.m, WrappingSub(ops.left, ops.right))
        ELSE Out(ops.m, StackUnderflow(instr))

MultiplyOp(instr, m, checks) ==
    LET ops == BinaryOperands(instr, m)
    IN  IF ops.ok
        THEN IF MulOverflows(ops.left, ops.right) /\ checks
             THEN Out(ops.m, Panic)
             ELSE PushResult(ops.m, WrappingMul(ops.left, ops.right))
        ELSE Out(ops.m, StackUnderflow(instr))

\* IntegerDivisionOp answering a zero divisor with the quotient 0.
IntegerDivisionOpZeroQuotient(instr, m) ==
    LET ops == BinaryOperands(instr, m)
    IN  IF ops.ok
        THEN IF ops.right = 0
             THEN PushResult(ops.m, 0)
             ELSE IF ops.left = Int32Min /\ ops.right = -1
                  THEN Out(ops.m, Panic)
                  ELSE PushResult(ops.m, TruncDiv(ops.left, ops.right))
        ELSE Out(ops.m, StackUnderflow(instr))

IntegerDivisionOp(instr, m) ==
    LET ops == BinaryOperands(instr, m)
    IN  IF ops.ok
        THEN IF ops.right = 0 \/ (ops.left = Int32Min /\ ops.right = -1)
             THEN Out(ops.m, Panic)
             ELSE PushResult(ops.m, TruncDiv(ops.left, ops.right))
        ELSE Out(ops.m, StackUnderflow(instr))

ModuloOp(instr, m) ==
    LET ops == BinaryOperands(instr, m)
    IN  IF ops.ok
        THEN IF ops.right = 0 \/ (ops.left = Int32Min /\ ops.right = -1)
             THEN Out(ops.m, Panic)
             ELSE PushResult(ops.m, TruncRem(ops.left, ops.right))
        ELSE Out(ops.m, StackUnderflow(instr))

Arithmetic(instr, m, checks) ==
    CASE instr.cmd = "Add" -> AddOp(instr, m, checks)
      [] instr.cmd = "Subtract" -> SubtractOp(instr, m, checks)
      [] instr.cmd = "Multiply" -> MultiplyOp(instr, m, checks)
      [] instr.cmd = "IntegerDivision" -> IntegerDivisionOp(instr, m)
      [] instr.cmd = "Modulo" -> ModuloOp(instr, m)
      [] OTHER -> Out(m, ParseLogicError(instr))

\* ----------------------------------------------------------- heap family

\* `addr < 0 || addr as usize >= self.heap.len()`
OutOfHeap(addr, m) == addr < 0 \/ addr >= Len(m.heap)

\* StoreHeap taking the address from the top and the value from beneath it.
StoreHeapSwapped(instr, m) ==
    LET ops == BinaryOperands(instr, m)
        val == ops.left
        addr == ops.right
    IN  IF ops.ok
        THEN IF OutOfHeap(addr, m)
             THEN Out(ops.m, NumberOutOfBoundsError(instr, addr, 0, Len(m.heap) - 1))
             ELSE Out([ops.m EXCEPT !.heap[addr + 1] = val], Ok)
        ELSE Out(ops.m, StackUnderflow(instr))

StoreHeap(instr, m) ==
    LET ops == BinaryOperands(instr, m)
        val == ops.right
        addr == ops.left
    IN  IF ops.ok
        THEN IF OutOfHeap(addr, m)
             THEN Out(ops.m, NumberOutOfBoundsError(instr, addr, 0, Len(m.heap) - 1))
             ELSE Out([ops.m EXCEPT !.heap[addr + 1] = val], Ok)
        ELSE Out(ops.m, StackUnderflow(instr))

\* RetrieveHeap reporting the heap's length as the high bound.
RetrieveHeapHighBound(instr, m) ==
    IF Len(m.stack) > 0
    THEN LET addr == Last(m.stack)
             popped == [m EXCEPT !.stack = Front(@)]
         IN  IF OutOfHeap(addr, m)
             THEN Out(popped, NumberOutOfBoundsError(instr, addr, 0, Len(m.heap)))
             ELSE Out([popped EXCEPT !.stack = Append(@, m.heap[addr + 1])], Ok)
    ELSE Out(m, StackUnderflow(instr))

RetrieveHeap(instr, m) ==
    IF Len(m.stack) > 0
    THEN LET addr == Last(m.stack)
             popped == [m EXCEPT !.stack = Front(@)]
         IN  IF OutOfHeap(addr, m)
             THEN Out(popped, NumberOutOfBoundsError(instr, addr, 0, Len(m.heap) - 1))
             ELSE Out([popped EXCEPT !.stack = Append(@, m.heap[addr + 1])], Ok)
    ELSE Out(m, StackUnderflow(instr))

Heap(instr, m) ==
    CASE instr.cmd = "StoreHeap" -> StoreHeap(instr, m)
      [] instr.cmd = "RetrieveHeap" -> RetrieveHeap(instr, m)
      [] OTHER -> Out(m, ParseLogicError(instr))

\* ----------------------------------------------------------- flow family

\* FlowCall saving the index after the Call, the address to return to.
FlowCallReturnAddress(instr, m) ==
    IF instr.param.kind = "Label"
    THEN Out([m EXCEPT !.call_stack = Append(@, m.instruction_pointer + 1),
                       !.instruction_pointer = instr.param.index], Ok)
    ELSE Out(m, ParseLogicError(instr))

FlowCall(instr, m) ==
    IF instr.param.kind = "Label"
    THEN Out([m EXCEPT !.call_stack = Append(@, m.instruction_pointer),
                       !.instruction_pointer = instr.param.index], Ok)
    ELSE Out(m, ParseLogicError(instr))

\* FlowJump computing the landing index itself, one past the Mark.
FlowJumpPastMark(instr, m) ==
    IF instr.param.kind = "Label"
    THEN Out([m EXCEPT !.instruction_pointer = instr.param.index + 1], Ok)
    ELSE Out(m, ParseLogicError(instr))

FlowJump(instr, m) ==
    IF instr.param.kind = "Label"
    THEN Out([m EXCEPT !.instruction_pointer = instr.param.index], Ok)
    ELSE Out(m, ParseLogicError(instr))

FlowJumpZero(instr, m) ==
    IF Len(m.stack) > 0
    THEN LET val == Last(m.stack)
             popped == [m EXCEPT !.stack = Front(@)]
         IN  IF val # 0 THEN Out(popped, Ok)
             ELSE IF instr.param.kind = "Label"
                  THEN Out([popped EXCEPT !.instruction_pointer = instr.param.index], Ok)
                  ELSE Out(popped, StackUnderflow(instr))
    ELSE Out(m, ParseLogicError(instr))

\* FlowJumpNegative going on only for a positive value: zero transfers too.
FlowJumpNegativeOrZero(instr, m) ==
    IF Len(m.stack) > 0
    THEN LET val == Last(m.stack)
             popped == [m EXCEPT !.stack = Front(@)]
         IN  IF val > 0 THEN Out(popped, Ok)
             ELSE IF instr.param.kind = "Label"
                  THEN Out([popped EXCEPT !.instruction_pointer = instr.param.index], Ok)
                  ELSE Out(popped, StackUnderflow(instr))
    ELSE Out(m, ParseLogicError(instr))

FlowJumpNegative(instr, m) ==
    IF Len(m.stack) > 0
    THEN LET val == Last(m.stack)
             popped == [m EXCEPT !.stack = Front(@)]
         IN  IF val >= 0 THEN Out(popped, Ok)
             ELSE IF instr.param.kind = "Label"
                  THEN Out([popped EXCEPT !.instruction_pointer = instr.param.index], Ok)
                  ELSE Out(popped, StackUnderflow(instr))
    ELSE Out(m, ParseLogicError(instr))

\* FlowReturn taking the oldest frame where the code takes the newest.
FlowReturnOldest(instr, m) ==
    IF Len(m.call_stack) > 0
    THEN Out([m EXCEPT !.call_stack = Tail(@),
                       !.instruction_pointer = Head(m.call_stack)], Ok)
    ELSE Out(m, StackUnderflow(instr))

FlowReturn(instr, m) ==
    IF Len(m.call_stack) > 0
    THEN Out([m EXCEPT !.call_stack = Front(@),
                       !.instruction_pointer = Last(m.call_stack)], Ok)
    ELSE Out(m, StackUnderflow(instr))

FlowExit(instr, m) == Out([m EXCEPT !.done = TRUE], Ok)

Flow(instr, m) ==
    CASE instr.cmd = "Mark" -> Out(m, Ok)
      [] instr.cmd = "Call" -> FlowCall(instr, m)
      [] instr.cmd = "Jump" -> FlowJump(instr, m)
      [] instr.cmd = "JumpZero" -> FlowJumpZero(instr, m)
      [] instr.cmd = "JumpNegative" -> FlowJumpNegative(instr, m)
      [] instr.cmd = "Return" -> FlowReturn(instr, m)
      [] instr.cmd = "Exit" -> FlowExit(instr, m)
      [] OTHER -> Out(m, ParseLogicError(instr))

\* ------------------------------------------------------------- io family

\* The environment one io instruction meets. stdout: "ok", "closed" (every
\* write or flush fails) or "closing" (the instruction's first write or flush
\* succeeds and its next one fails). getch: the key read, or -1 for a failed
\* read. line: the text read_line delivers, with line_ok false for a failed read.
Env(stdout, getch, line_ok, line) ==
    [stdout |-> stdout, getch |-> getch, line_ok |-> line_ok, line |-> line]

\* char::from_u32(c as u32) of a non-negative c: None for a surrogate and
\* for a value above char::MAX.
IsChar(c) == c <= 1114111 /\ ~(55296 <= c /\ c <= 57343)

\* str::trim: leading and trailing whitespace removed.
IsWhitespace(c) == c \in {" ", "\n", "\t", "\r"}
RECURSIVE TrimStart(_)
TrimStart(t) ==
    IF Len(t) > 0 /\ IsWhitespace(Head(t)) THEN TrimStart(Tail(t)) ELSE t
RECURSIVE TrimEnd(_)
TrimEnd(t) ==
    IF Len(t) > 0 /\ IsWhitespace(Last(t)) THEN TrimEnd(Front(t)) ELSE t
Trim(t) == TrimEnd(TrimStart(t))

IsDigit(c) == c \in {"0", "1", "2", "3", "4", "5", "6", "7", "8", "9"}
DigitValue(c) ==
    CASE c = "0" -> 0 [] c = "1" -> 1 [] c = "2" -> 2 [] c = "3" -> 3 [] c = "4" -> 4
      [] c = "5" -> 5 [] c = "6" -> 6 [] c = "7" -> 7 [] c = "8" -> 8 [] c = "9" -> 9

\* The digits of str::parse::<i32>, accumulated with checked arithmetic:
\* upwards for a positive number, downwards for a negative one.
RECURSIVE ParseDigits(_, _, _)
ParseDigits(digits, acc, negative) ==
    IF Len(digits) = 0 THEN [ok |-> TRUE, num |-> acc]
    ELSE IF ~IsDigit(Head(digits)) THEN [ok |-> FALSE, num |-> 0]
    ELSE LET d == DigitValue(Head(digits))
         IN  IF negative
             THEN IF acc < TruncDiv(Int32Min + d, 10)
                  THEN [ok |-> FALSE, num |-> 0]
                  ELSE ParseDigits(Tail(digits), acc * 10 - d, negative)
             ELSE IF acc > (Int32Max - d) \div 10
                  THEN [ok |-> FALSE, num |-> 0]
                  ELSE ParseDigits(Tail(digits), acc * 10 + d, negative)

\* str::parse::<i32>: an optional sign, then at least one digit, nothing else.
ParseI32(t) ==
    IF Len(t) = 0 THEN [ok |-> FALSE, num |-> 0]
    ELSE LET signed == Head(t) \in {"+", "-"}
             digits == IF signed THEN Tail(t) ELSE t
         IN  IF Len(digits) = 0 THEN [ok |-> FALSE, num |-> 0]
             ELSE ParseDigits(digits, 0, Head(t) = "-")

IoOutCharacter(instr, m, suppress_output, env) ==
    IF Len(m.stack) > 0
    THEN LET character == Last(m.stack)
             popped == [m EXCEPT !.stack = Front(@)]
         IN  IF character < 0
             THEN Out(popped, NumberOutOfBoundsError(instr, character, 0, Int32Max))
             ELSE IF suppress_output THEN Out(popped, Ok)
             ELSE IF IsChar(character)
                  THEN IF env.stdout = "ok" THEN Out(popped, Ok) ELSE Out(popped, IoError)
                  ELSE Out(popped, StackUnderflow(instr))
    ELSE Out(m, StackUnderflow(instr))

IoOutInteger(instr, m, suppress_output, env) ==
    IF Len(m.stack) > 0
    THEN LET popped == [m EXCEPT !.stack = Front(@)]
         IN  IF suppress_output THEN Out(popped, Ok)
             ELSE IF env.stdout = "ok" THEN Out(popped, Ok) ELSE Out(popped, IoError)
    ELSE Out(m, StackUnderflow(instr))

IoReadCharacter(instr, m, env) ==
    IF Len(m.stack) > 0
    THEN LET addr == Last(m.stack)
             popped == [m EXCEPT !.stack = Front(@)]
         IN  IF OutOfHeap(addr, m)
             THEN Out(popped, NumberOutOfBoundsError(instr, addr, 0, Len(m.heap) - 1))
             ELSE IF env.stdout = "closed" THEN Out(popped, IoError)
             ELSE IF env.getch < 0 THEN Out(popped, IoError)
             ELSE LET written == [popped EXCEPT !.heap[addr + 1] = env.getch]
                  IN  IF env.stdout = "ok" THEN Out(written, Ok) ELSE Out(written, IoError)
    ELSE Out(m, StackUnderflow(instr))

IoReadInteger(instr, m, env) ==
    IF Len(m.stack) > 0
    THEN LET addr == Last(m.stack)
             popped == [m EXCEPT !.stack = Front(@)]
         IN  IF OutOfHeap(addr, m)
             THEN Out(popped, NumberOutOfBoundsError(instr, addr, 0, Len(m.heap) - 1))
             ELSE IF env.stdout = "closed" THEN Out(popped, IoError)
             ELSE IF ~env.line_ok THEN Out(popped, IoError)
             ELSE LET num == ParseI32(Trim(env.line))
                  IN  IF num.ok
                      THEN Out([popped EXCEPT !.heap[addr + 1] = num.num], Ok)
                      ELSE Out(popped, ParseIntError)
    ELSE Out(m, StdinError(instr))

Io(instr, m, suppress_output, env) ==
    CASE instr.cmd = "OutCharacter" -> IoOutCharacter(instr, m, suppress_output, env)
      [] instr.cmd = "OutInteger" -> IoOutInteger(instr, m, suppress_output, env)
      [] instr.cmd = "ReadCharacter" -> IoReadCharacter(instr, m, env)
      [] instr.cmd = "ReadInteger" -> IoReadInteger(instr, m, env)
      [] OTHER -> Out(m, ParseLogicError(instr))

\* ------------------------------------------------------- Interpreter::new

\* InsertMarks keeping the entry a label already has: the first Mark wins.
RECURSIVE InsertMarksFirstWins(_, _, _)
InsertMarksFirstWins(instrs, i, labels) ==
    IF i >= Len(instrs) THEN labels
    ELSE LET instr == instrs[i + 1]
         IN  IF instr.cmd = "Mark" /\ instr.param.kind = "Label"
                /\ instr.param.label \notin DOMAIN labels
             THEN InsertMarksFirstWins(instrs, i + 1,
                      [l \in DOMAIN labels \cup {instr.param.label} |->
                          IF l = instr.param.label THEN i ELSE labels[l]])
             ELSE InsertMarksFirstWins(instrs, i + 1, labels)

\* First pass: the label table after the instructions before index i (0-based)
\* went in; insert overwrites, so the last Mark of a label wins.
RECURSIVE InsertMarks(_, _, _)
InsertMarks(instrs, i, labels) ==
    IF i >= Len(instrs) THEN labels
    ELSE LET instr == instrs[i + 1]
         IN  IF instr.cmd = "Mark" /\ instr.param.kind = "Label"
             THEN InsertMarks(instrs, i + 1,
                      [l \in DOMAIN labels \cup {instr.param.label} |->
                          IF l = instr.param.label THEN i ELSE labels[l]])
             ELSE InsertMarks(instrs, i + 1, labels)

LabelTable(instrs) == InsertMarks(instrs, 0, << >>)

\* Second pass: every label operand whose label is in the table gets its index.
ResolveInstr(instr, labels) ==
    IF instr.param.kind = "Label" /\ instr.param.label \in DOMAIN labels
    THEN [instr EXCEPT !.param = Label(instr.param.label, labels[instr.param.label])]
    ELSE instr

\* Resolve in a single pass: each operand meets the table of the Marks up to
\* its own instruction, so a reference ahead of its Mark stays as it is.
ResolveSinglePass(instrs) ==
    [i \in 1..Len(instrs) |->
        ResolveInstr(instrs[i], InsertMarks(SubSeq(instrs, 1, i), 0, << >>))]

Resolve(instrs) ==
    LET labels == LabelTable(instrs)
    IN  [i \in 1..Len(instrs) |-> ResolveInstr(instrs[i], labels)]

\* The machine state Interpreter::new builds and reset() restores.
NewMachine(heap_size) ==
    [stack |-> << >>, call_stack |-> << >>, heap |-> [a \in 1..heap_size |-> 0],
     instruction_pointer |-> 0, done |-> FALSE]

\* ------------------------------------------------------------------ inputs

PushVals == {-1, 0, 1}
Operands == {-1, 0, 1}
Labels == {"a", "b"}

Alphabet ==
    {Push(n) : n \in PushVals} \cup {Duplicate, Swap, Discard}
    \cup {CopyNth(n) : n \in Operands} \cup {SlideN(n) : n \in Operands}
    \cup {Add, Subtract, Multiply, IntegerDivision, Modulo}
    \cup {Store, Retrieve}
    \cup {Mark(l) : l \in Labels} \cup {Call(l) : l \in Labels}
    \cup {Jump(l) : l \in Labels} \cup {JumpZero(l) : l \in Labels}
    \cup {JumpNegative(l) : l \in Labels} \cup {Return, Exit}
    \cup {OutCharacter, OutInteger, ReadCharacter, ReadInteger}

\* Every program of at most MaxLen instructions.
ShortPrograms == UNION {[1..n -> Alphabet] : n \in 0..MaxLen}

\* Longer programs: the scenarios of the specification's section 8 and
\* programs that bring the machine into the states the short ones cannot reach.
Scenarios ==
    { <<Push(5), Push(3), Subtract, OutInteger, Exit>>,
      <<Push(0), Push(42), Store, Push(0), Retrieve, OutInteger, Exit>>,
      <<Jump("a"), Push(1), Mark("a"), Push(2), Exit>>,
      <<Push(-1), Push(99), Store, Exit>>,
      <<Push(MaxHeap), Push(99), Store, Exit>>,
      <<Push(1), Push(7), Store, Push(1), Push(8), Store, Push(1), Retrieve, Exit>>,
      <<Push(1), ReadInteger, Push(1), Retrieve, Push(0), Retrieve, Exit>>,
      <<Push(0), ReadCharacter, Push(0), Retrieve, OutCharacter, Exit>>,
      <<Call("a"), Exit, Mark("a"), Call("b"), Return, Mark("b"), Return>>,
      <<Call("a"), Push(7), Exit, Mark("b"), Push(1), Return, Mark("a"), Call("b"),
        Push(2), Return>>,
      <<Push(7), Push(8), Push(9), CopyNth(0), CopyNth(2), CopyNth(3), CopyNth(6)>>,
      <<Push(7), Push(8), Push(9), SlideN(1), Exit>>,
      <<Push(7), Push(8), Push(9), SlideN(2), Exit>>,
      <<Push(7), Push(8), Push(9), SlideN(3), Exit>>,
      <<Push(7), Push(8), Push(9), SlideN(-1), Exit>>,
      <<Push(7), Push(8), Swap, Add, Add>>,
      <<Push(2), Mark("a"), Push(1), Subtract, Duplicate, JumpZero("b"), Jump("a"),
        Mark("b"), Exit>>,
      <<Push(-2), Mark("a"), Push(1), Add, Duplicate, JumpNegative("a"), Exit>>,
      <<Push(0), JumpZero("a"), Push(1), Mark("a"), Push(2), Exit>>,
      <<Push(-1), JumpNegative("a"), Push(1), Mark("a"), Push(2), Exit>>,
      <<Push(55296), OutCharacter, Exit>>,
      <<Push(Int32Max), Push(1), Add, Exit>>,
      <<Mark("a"), Push(1), Mark("a"), Jump("a")>>,
      <<Push(1), Jump("b"), Exit>>,
      <<Push(-2), Push(Int32Max), Subtract, Exit>>,
      <<Push(Int32Max), Push(2), Multiply, Exit>>,
      <<Push(1), Push(0), IntegerDivision, Push(5), Exit>>,
      <<Jump("a"), Mark("a"), Push(1), Mark("a"), Exit>>,
      <<Push(7), Push(Int32Max), Discard, Push(Int32Min), Discard, Exit>> }

\* Programs that first bring the machine into a state (values on the stack, a
\* written heap cell, a call in progress) and then run every tail of at most
\* MaxTail instructions there.
Setups ==
    { <<Push(0), Push(1)>>,
      <<Push(1), Push(0)>>,
      <<Push(-1), Push(2)>>,
      <<Push(7), Push(8), Push(9)>>,
      <<Push(1), Push(5), Store, Push(1)>>,
      <<Call("a"), Mark("a"), Push(0)>> }
Tails == UNION {[1..n -> Alphabet] : n \in 1..MaxTail}

Programs ==
    ShortPrograms \cup {setup \o tail : setup \in Setups, tail \in Tails} \cup Scenarios

HeapSizes == {0, MaxHeap}

\* The configurations a program is run under. A field that no instruction of
\* the program reads is not varied: the heap size is 0 for a program without
\* heap access, and output is not suppressed for one without output.
Uses(instrs, cmds) == \E i \in DOMAIN instrs : instrs[i].cmd \in cmds
Configs(instrs) ==
    {c \in [heap_size : HeapSizes, suppress_output : BOOLEAN] :
        /\ c.heap_size = 0
           \/ Uses(instrs, {"StoreHeap", "RetrieveHeap", "ReadCharacter", "ReadInteger"})
        /\ ~c.suppress_output \/ Uses(instrs, {"OutCharacter", "OutInteger"})}

Keys == {65}
Lines == { <<"7", "\n">>, <<" ", "-", "1", "2", " ", "\n">>, <<"x", "\n">>, << >> }
Envs ==
    {Env(stdout, getch, line_ok, line) :
        stdout \in {"ok", "closing", "closed"}, getch \in Keys \cup {-1},
        line_ok \in BOOLEAN, line \in Lines}

\* The environments that differ in what the command reads: standard output
\* for all four, the key for ReadCharacter, the line for ReadInteger.
EnvsFor(cmd) ==
    {env \in Envs :
        /\ cmd = "ReadCharacter" \/ env.getch = -1
        /\ cmd = "ReadInteger" \/ (~env.line_ok /\ env.line = << >>)}

\* ------------------------------------------------------------------- state

VARIABLES
    config,               \* InterpreterConfig: heap_size, suppress_output
    instructions,         \* the program, labels resolved
    stack,
    call_stack,
    heap,
    instruction_pointer,
    done,
    pc,                   \* "idle", "running" (inside run), "returned", "panicked"
    result,               \* what the last run() returned
    last,                 \* the last exec: its instruction, the machine before it, its result
    steps,                \* instructions executed since construction or reset
    stored,               \* address -> the value last stored there since construction or reset
    source,               \* the instruction list as the parser delivered it
    prev,                 \* the exec before the last one
    run_steps,            \* instructions executed by the present (or latest) run()
    first_run             \* how the run() that the first reset() wiped had ended

vars == <<config, instructions, stack, call_stack, heap, instruction_pointer, done,
          pc, result, last, steps, stored, source, prev, run_steps, first_run>>

Machine ==
    [stack |-> stack, call_stack |-> call_stack, heap |-> heap,
     instruction_pointer |-> instruction_pointer, done |-> done]

SetMachine(m) ==
    /\ stack' = m.stack
    /\ call_stack' = m.call_stack
    /\ heap' = m.heap
    /\ instruction_pointer' = m.instruction_pointer
    /\ done' = m.done

NoExec == [instr |-> NoInstr, before |-> NewMachine(0), res |-> NoResult]

\* How a run() ended: its result and the machine it left. NoOutcome: none kept.
Outcome(res, m) == [kept |-> TRUE, result |-> res, m |-> m]
NoOutcome == [kept |-> FALSE, result |-> NoResult, m |-> NewMachine(0)]

\* HasNext without the test of the termination flag.
HasNextIgnoringDone == instruction_pointer < Len(instructions)

\* next_instruction() is Some exactly when HasNext holds.
HasNext == ~done /\ instruction_pointer < Len(instructions)
next_instruction == IF HasNext THEN instructions[instruction_pointer + 1] ELSE NoInstr

\* exec advancing the pointer only after a handler that succeeded.
ExecAdvanceOnSuccess(instr, m, suppress_output, env, checks) ==
    LET res == CASE instr.imp = "Stack" -> Stack(instr, m)
                 [] instr.imp = "Arithmetic" -> Arithmetic(instr, m, checks)
                 [] instr.imp = "Heap" -> Heap(instr, m)
                 [] instr.imp = "Flow" -> Flow(instr, m)
                 [] instr.imp = "IO" -> Io(instr, m, suppress_output, env)
    IN  IF res.res # Ok THEN res
        ELSE [res EXCEPT !.m.instruction_pointer = @ + 1]

\* exec: dispatch on the family, then the unconditional advance. A panicking
\* handler unwinds past the advance.
Exec(instr, m, suppress_output, env, checks) ==
    LET res == CASE instr.imp = "Stack" -> Stack(instr, m)
                 [] instr.imp = "Arithmetic" -> Arithmetic(instr, m, checks)
                 [] instr.imp = "Heap" -> Heap(instr, m)
                 [] instr.imp = "Flow" -> Flow(instr, m)
                 [] instr.imp = "IO" -> Io(instr, m, suppress_output, env)
    IN  IF res.res = Panic THEN res
        ELSE [res EXCEPT !.m.instruction_pointer = @ + 1]

\* RunResult reading instructions[ip] where the code reads instructions[ip - 1].
RunResultNoDecrement(m, instrs) ==
    IF m.instruction_pointer >= Len(instrs)
    THEN Panic
    ELSE LET lastInstr == instrs[m.instruction_pointer + 1]
         IN  IF lastInstr.cmd # "Exit" THEN NoTermination(lastInstr) ELSE Ok

\* What run() returns once its loop has ended: instructions[ip - 1] is read
\* with ip - 1 computed in usize and the index checked.
RunResult(m, instrs) ==
    IF m.instruction_pointer = 0 \/ m.instruction_pointer - 1 >= Len(instrs)
    THEN Panic
    ELSE LET lastInstr == instrs[m.instruction_pointer]
         IN  IF lastInstr.cmd # "Exit" THEN NoTermination(lastInstr) ELSE Ok

\* run() as a function of the machine it is entered with, for a program that
\* reads no input, with standard output working and overflow wrapping: how it
\* ends, or NoOutcome if it has not ended after `turns` turns of its loop.
RECURSIVE Run(_, _, _, _)
Run(m, instrs, suppress_output, turns) ==
    IF m.done \/ m.instruction_pointer >= Len(instrs)
    THEN Outcome(RunResult(m, instrs), m)
    ELSE IF turns = 0 THEN NoOutcome
    ELSE LET out == Exec(instrs[m.instruction_pointer + 1], m, suppress_output,
                         Env("ok", -1, FALSE, << >>), FALSE)
         IN  IF out.res = Ok
             THEN Run(out.m, instrs, suppress_output, turns - 1)
             ELSE Outcome(out.res, out.m)

\* The interpreter Interpreter::new returns for one of the given programs.
Start(programs) ==
    /\ source \in programs
    /\ config \in Configs(source)
    /\ instructions = Resolve(source)
    /\ stack = << >>
    /\ call_stack = << >>
    /\ heap = [a \in 1..config.heap_size |-> 0]
    /\ instruction_pointer = 0
    /\ done = FALSE
    /\ pc = "idle"
    /\ result = NoResult
    /\ last = NoExec
    /\ steps = 0
    /\ stored = << >>
    /\ prev = NoExec
    /\ run_steps = 0
    /\ first_run = NoOutcome

Init == Start(Programs)

\* ----------------------------------------------------------------- actions

\* The caller enters run().
RunCall ==
    /\ pc \in {"idle", "returned"}
    /\ pc' = "running"
    /\ result' = NoResult
    /\ run_steps' = 0
    /\ UNCHANGED <<config, instructions, stack, call_stack, heap, instruction_pointer,
                   done, last, steps, stored, source, prev, first_run>>

\* The record of stores after instr ran on machine m: a successful Store stores
\* its top value at the address beneath it, a read instruction that wrote the
\* heap stores what it wrote at the address it popped.
Recorded(instr, m, out) ==
    LET k == Len(m.stack)
        put(a, v) == [x \in DOMAIN stored \cup {a} |-> IF x = a THEN v ELSE stored[x]]
    IN  IF instr.cmd = "StoreHeap" /\ out.res = Ok
        THEN put(m.stack[k - 1], m.stack[k])
        ELSE IF instr.cmd \in {"ReadCharacter", "ReadInteger"} /\ out.m.heap # m.heap
             THEN put(m.stack[k], out.m.heap[m.stack[k] + 1])
             ELSE stored

\* LoopTurn with exec's error dropped: the loop goes on after a failed exec.
LoopTurnIgnoringErrors(instr, out) ==
    /\ SetMachine(out.m)
    /\ last' = [instr |-> instr, before |-> Machine, res |-> out.res]
    /\ prev' = last
    /\ steps' = steps + 1
    /\ run_steps' = run_steps + 1
    /\ stored' = Recorded(instr, Machine, out)
    /\ pc' = IF out.res = Panic THEN "panicked" ELSE "running"
    /\ result' = IF out.res = Panic THEN out.res ELSE result
    /\ UNCHANGED <<config, instructions, source, first_run>>

\* One turn of run()'s loop: exec(instr)?, with `out` what exec leaves behind.
LoopTurn(instr, out) ==
    /\ SetMachine(out.m)
    /\ last' = [instr |-> instr, before |-> Machine, res |-> out.res]
    /\ prev' = last
    /\ steps' = steps + 1
    /\ run_steps' = run_steps + 1
    /\ stored' = Recorded(instr, Machine, out)
    /\ pc' = IF out.res = Ok THEN "running"
             ELSE IF out.res = Panic THEN "panicked" ELSE "returned"
    /\ result' = IF out.res = Ok THEN result ELSE out.res
    /\ UNCHANGED <<config, instructions, source, first_run>>

Fetched(imp) ==
    /\ pc = "running"
    /\ HasNext
    /\ next_instruction.imp = imp
    /\ steps < MaxSteps

ExecStack ==
    /\ Fetched("Stack")
    /\ LoopTurn(next_instruction,
                Exec(next_instruction, Machine, config.suppress_output,
                     Env("ok", -1, FALSE, << >>), FALSE))

ExecArithmetic ==
    /\ Fetched("Arithmetic")
    /\ \E checks \in BOOLEAN :
          LoopTurn(next_instruction,
                   Exec(next_instruction, Machine, config.suppress_output,
                        Env("ok", -1, FALSE, << >>), checks))

ExecHeap ==
    /\ Fetched("Heap")
    /\ LoopTurn(next_instruction,
                Exec(next_instruction, Machine, config.suppress_output,
                     Env("ok", -1, FALSE, << >>), FALSE))

ExecFlow ==
    /\ Fetched("Flow")
    /\ LoopTurn(next_instruction,
                Exec(next_instruction, Machine, config.suppress_output,
                     Env("ok", -1, FALSE, << >>), FALSE))

ExecIO ==
    /\ Fetched("IO")
    /\ \E env \in EnvsFor(next_instruction.cmd) :
          LoopTurn(next_instruction,
                   Exec(next_instruction, Machine, config.suppress_output, env, FALSE))

\* run()'s loop has ended: next_instruction() is None.
RunReturn ==
    /\ pc = "running"
    /\ ~HasNext
    /\ result' = RunResult(Machine, instructions)
    /\ pc' = IF RunResult(Machine, instructions) = Panic THEN "panicked" ELSE "returned"
    /\ UNCHANGED <<config, instructions, stack, call_stack, heap, instruction_pointer,
                   done, last, steps, stored, source, prev, run_steps, first_run>>

\* reset() leaving the heap's cells as they are.
ResetStateKeepingHeap == [NewMachine(Len(heap)) EXCEPT !.heap = heap]

\* What reset() assigns to the machine.
ResetState == NewMachine(Len(heap))

\* reset(), called between two runs; `outcome` is what is kept of the run before.
ResetTo(outcome) ==
    /\ pc \in {"idle", "returned"}
    /\ SetMachine(ResetState)
    /\ pc' = "idle"
    /\ result' = NoResult
    /\ last' = NoExec
    /\ prev' = NoExec
    /\ steps' = 0
    /\ run_steps' = 0
    /\ stored' = << >>
    /\ first_run' = outcome
    /\ UNCHANGED <<config, instructions, source>>

Reset == ResetTo(first_run)

\* reset() with the outcome of the run it wipes kept, if that run began in the
\* reset state and is the first one so wiped.
ResetObserved ==
    ResetTo(IF ~first_run.kept /\ pc = "returned" /\ run_steps = steps
            THEN Outcome(result, Machine)
            ELSE first_run)

Next ==
    \/ RunCall
    \/ ExecStack
    \/ ExecArithmetic
    \/ ExecHeap
    \/ ExecFlow
    \/ ExecIO
    \/ RunReturn
    \/ Reset

Spec == Init /\ [][Next]_vars

\* The interpreters whose run after a reset is compared with the run before it.
RerunPrograms == {setup \o tail : setup \in Setups, tail \in Tails} \cup Scenarios

InitRerun == Start(RerunPrograms)

NextRerun ==
    \/ RunCall
    \/ ExecStack
    \/ ExecArithmetic
    \/ ExecHeap
    \/ ExecFlow
    \/ ExecIO
    \/ RunReturn
    \/ ResetObserved

SpecRerun == InitRerun /\ [][NextRerun]_vars

\* ------------------------------------------------------------ properties

\* run() is over: it returned, or a panic unwound out of it.
RunOver == pc \in {"returned", "panicked"}

\* An exec has run since construction or reset, and `last` describes it.
Executed == last.instr # NoInstr
ExecutedOk(cmd) == last.instr.cmd = cmd /\ last.res = Ok

\* The results that are errors returned by a handler.
Failed == last.res.kind \in {"ParseLogicError", "StackUnderflow", "NumberOutOfBoundsError",
                             "StdinError", "IoError", "ParseIntError"}

\* The position of the Mark that defines label l in the parsed program (the
\* last one, should several Marks name l), or -1 if no Mark names l.
MarkIndices(l) ==
    {i \in 0..(Len(source) - 1) : source[i + 1].cmd = "Mark" /\ source[i + 1].param.label = l}
MarkIndex(l) ==
    IF MarkIndices(l) = {} THEN -1
    ELSE CHOOSE i \in MarkIndices(l) : \A j \in MarkIndices(l) : j <= i

\* C1: once run() has executed an Exit instruction it returns Ok (it neither
\* raises Missing-termination nor panics), and whenever run() returns Ok the
\* last instruction executed was Exit.
C1_ExitIffOk ==
    RunOver =>
        /\ (last.instr.cmd = "Exit" \/ done) => result = Ok
        /\ result = Ok => (last.instr.cmd = "Exit" /\ done)

C1_Witness ==
    /\ pc = "returned"
    /\ result = Ok
    /\ last.instr = Exit
    /\ Len(source) > 1
    /\ instruction_pointer < Len(instructions)

\* C2: when run() is over, no Exit was executed and no instruction failed,
\* run() has returned the Missing-termination error.
C2_NoExitMeansNoTermination ==
    (RunOver /\ ~done /\ last.res \in {Ok, NoResult}) => result.kind = "NoTermination"

\* C3: after a successful Jump or Call, or a taken JumpZero / JumpNegative,
\* whose label is defined by the Mark at index m, the instruction pointer is
\* m + 1, and every exec executes the instruction the pointer stood at, so the
\* next instruction executed is the one after the Mark and not the Mark; the
\* flow scenario of the specification ends with stack [2].
Transferred ==
    \/ ExecutedOk("Jump")
    \/ ExecutedOk("Call")
    \/ ExecutedOk("JumpZero") /\ Last(last.before.stack) = 0
    \/ ExecutedOk("JumpNegative") /\ Last(last.before.stack) < 0

C3_TransferLandsAfterMark ==
    /\ (Transferred /\ MarkIndex(last.instr.param.label) >= 0) =>
           instruction_pointer = MarkIndex(last.instr.param.label) + 1
    /\ Executed => last.instr = instructions[last.before.instruction_pointer + 1]
    /\ (source = <<Jump("a"), Push(1), Mark("a"), Push(2), Exit>> /\ RunOver) =>
           (result = Ok /\ stack = <<2>>)

C3_Witness ==
    /\ Transferred
    /\ last.instr.cmd = "JumpNegative"
    /\ MarkIndex(last.instr.param.label) = 1
    /\ last.before.instruction_pointer = 5

\* C4: a successful Call at index c appends c to the call stack; a successful
\* Return removes the most recently pushed entry c, which is the index of a
\* Call, and leaves the instruction pointer at c + 1.
C4_CallReturnLifo ==
    /\ ExecutedOk("Call") =>
           call_stack = Append(last.before.call_stack, last.before.instruction_pointer)
    /\ ExecutedOk("Return") =>
           /\ call_stack = Front(last.before.call_stack)
           /\ instruction_pointer = Last(last.before.call_stack) + 1
           /\ instructions[Last(last.before.call_stack) + 1].cmd = "Call"

\* A Return inside a nested call: two frames, the inner one taken.
C4_Witness ==
    /\ ExecutedOk("Return")
    /\ Len(last.before.call_stack) = 2
    /\ last.before.call_stack[1] # last.before.call_stack[2]
    /\ instruction_pointer = last.before.call_stack[2] + 1

\* C5: whenever executing an instruction fails with an error, the operand
\* stack, the call stack and the heap are what they were before it.
C5_FailureLeavesState ==
    Failed =>
        /\ stack = last.before.stack
        /\ call_stack = last.before.call_stack
        /\ heap = last.before.heap

\* The number of operand-stack values a command pops.
Pops(cmd) ==
    CASE cmd \in {"DuplicateStack", "DiscardStack", "SlideNStack", "RetrieveHeap", "JumpZero",
                  "JumpNegative", "OutCharacter", "OutInteger", "ReadCharacter",
                  "ReadInteger"} -> 1
      [] cmd \in {"SwapStack", "Add", "Subtract", "Multiply", "IntegerDivision", "Modulo",
                  "StoreHeap"} -> 2
      [] OTHER -> 0

\* The last exec met fewer values than its instruction pops.
Underfed ==
    /\ Executed
    /\ \/ Len(last.before.stack) < Pops(last.instr.cmd)
       \/ last.instr.cmd = "Return" /\ Len(last.before.call_stack) = 0

\* C6: an instruction executed with fewer operand-stack values than it pops,
\* or a Return executed with an empty call stack, fails with the
\* Stack-underflow error carrying that instruction.
C6_UnderfedIsUnderflow == Underfed => last.res = StackUnderflow(last.instr)

\* The address a heap-accessing instruction is given: beneath the value for
\* Store, on top for the others.
HeapAccess == {"StoreHeap", "RetrieveHeap", "ReadCharacter", "ReadInteger"}
Address ==
    IF last.instr.cmd = "StoreHeap"
    THEN last.before.stack[Len(last.before.stack) - 1]
    ELSE Last(last.before.stack)

\* C7: Store, Retrieve, ReadCharacter and ReadNumber given an address a outside
\* [0, heap_size - 1] fail with the Bounds-violation carrying a, 0 and
\* heap_size - 1, leave the heap as it was and push nothing; with heap size 0
\* that is every heap access.
C7_OutOfRangeAddress ==
    (Executed /\ last.instr.cmd \in HeapAccess
              /\ Len(last.before.stack) >= Pops(last.instr.cmd)
              /\ (Address < 0 \/ Address > config.heap_size - 1)) =>
        /\ last.res = NumberOutOfBoundsError(last.instr, Address, 0, config.heap_size - 1)
        /\ heap = last.before.heap
        /\ Len(stack) < Len(last.before.stack)

\* The address one past the end of a non-empty heap.
C7_Witness ==
    /\ Executed
    /\ last.instr.cmd = "StoreHeap"
    /\ config.heap_size > 0
    /\ Len(last.before.stack) >= 2
    /\ Address = config.heap_size
    /\ last.res.kind = "NumberOutOfBoundsError"

\* C8: a successful Store takes the value from the top and the address from
\* beneath it, writes the value at the address and leaves every other cell;
\* a successful Retrieve replaces the address on top by the value last stored
\* there since construction or reset, or by 0 if nothing was stored there.
C8_StoreThenRetrieve ==
    /\ (Executed /\ last.instr.cmd = "StoreHeap" /\ Len(last.before.stack) >= 2
                 /\ Address \in 0..(config.heap_size - 1)) =>
           LET k == Len(last.before.stack)
               val == last.before.stack[k]
           IN  /\ last.res = Ok
               /\ heap = [a \in 1..config.heap_size |->
                             IF a = Address + 1 THEN val ELSE last.before.heap[a]]
               /\ stack = SubSeq(last.before.stack, 1, k - 2)
    /\ (Executed /\ last.instr.cmd = "RetrieveHeap" /\ Len(last.before.stack) >= 1
                 /\ Address \in 0..(config.heap_size - 1)) =>
           /\ last.res = Ok
           /\ stack = Append(Front(last.before.stack),
                             IF Address \in DOMAIN stored THEN stored[Address] ELSE 0)
           /\ heap = last.before.heap

\* A Retrieve of an address that was stored to twice.
C8_Witness ==
    /\ ExecutedOk("RetrieveHeap")
    /\ source = <<Push(1), Push(7), Store, Push(1), Push(8), Store, Push(1), Retrieve, Exit>>
    /\ stack = <<8>>

\* C9: CopyNth with operand n on a stack of k values pushes a copy of the
\* value at position n from the bottom and leaves the k values if 0 <= n < k,
\* and otherwise fails with the Bounds-violation carrying n, 0 and k - 1 and
\* leaves the stack.
C9_CopyNth ==
    (Executed /\ last.instr.cmd = "CopyNthStack") =>
        LET n == last.instr.param.num
            k == Len(last.before.stack)
        IN  IF 0 <= n /\ n < k
            THEN /\ last.res = Ok
                 /\ stack = Append(last.before.stack, last.before.stack[n + 1])
            ELSE /\ last.res = NumberOutOfBoundsError(last.instr, n, 0, k - 1)
                 /\ stack = last.before.stack

\* The operand equal to the length of a non-empty stack.
C9_Witness ==
    /\ Executed
    /\ last.instr.cmd = "CopyNthStack"
    /\ Len(last.before.stack) > 1
    /\ last.instr.param.num = Len(last.before.stack)
    /\ last.res.kind = "NumberOutOfBoundsError"

\* C10: SlideN with operand N on a stack of k > 0 values leaves, if
\* 0 <= N <= k - 1, the first k - 1 - N values followed by the old top, and
\* fails with a Bounds-violation if N < 0.
C10_SlideN ==
    (Executed /\ last.instr.cmd = "SlideNStack" /\ Len(last.before.stack) > 0) =>
        LET N == last.instr.param.num
            k == Len(last.before.stack)
        IN  /\ (0 <= N /\ N <= k - 1) =>
                   /\ last.res = Ok
                   /\ stack = Append(SubSeq(last.before.stack, 1, k - 1 - N),
                                     last.before.stack[k])
            /\ N < 0 => last.res.kind = "NumberOutOfBoundsError"

\* One value slid out from under the top of three.
C10_Witness ==
    /\ ExecutedOk("SlideNStack")
    /\ last.instr.param.num = 1
    /\ last.before.stack = <<7, 8, 9>>
    /\ stack = <<7, 9>>

\* The commands of the arithmetic family and the operands the last exec met:
\* the right one on top, the left one beneath it.
ArithmeticCmds == {"Add", "Subtract", "Multiply", "IntegerDivision", "Modulo"}
Right == last.before.stack[Len(last.before.stack)]
Left == last.before.stack[Len(last.before.stack) - 1]
Below == SubSeq(last.before.stack, 1, Len(last.before.stack) - 2)

\* left OP right has a value, and the value is a signed 32-bit integer.
HasValue(cmd, left, right) ==
    CASE cmd = "Add" -> ~AddOverflows(left, right)
      [] cmd = "Subtract" -> ~SubOverflows(left, right)
      [] cmd = "Multiply" -> ~MulOverflows(left, right)
      [] OTHER -> right # 0 /\ ~(left = Int32Min /\ right = -1)

Sign(x) == IF x < 0 THEN -1 ELSE IF x > 0 THEN 1 ELSE 0

\* val is left OP right, with the quotient truncated toward zero and the
\* remainder taking the sign of the dividend.
IsValue(cmd, left, right, val) ==
    CASE cmd = "Add" -> val = left + right
      [] cmd = "Subtract" -> val = left - right
      [] cmd = "Multiply" -> val = left * right
      [] cmd = "IntegerDivision" ->
             LET rem == left - val * right
             IN  Abs(rem) < Abs(right) /\ (rem = 0 \/ Sign(rem) = Sign(left))
      [] cmd = "Modulo" ->
             /\ Abs(val) < Abs(right)
             /\ val = 0 \/ Sign(val) = Sign(left)
             /\ (left - val) % Abs(right) = 0

C12_OverflowWraps ==
    /\ (Executed /\ last.instr.cmd \in {"Add", "Subtract", "Multiply"}
                 /\ Len(last.before.stack) >= 2
                 /\ ~HasValue(last.instr.cmd, Left, Right)) =>
           /\ last.res = Ok
           /\ Front(stack) = Below
           /\ Last(stack) = CASE last.instr.cmd = "Add" -> WrappingAdd(Left, Right)
                               [] last.instr.cmd = "Subtract" -> WrappingSub(Left, Right)
                               [] last.instr.cmd = "Multiply" -> WrappingMul(Left, Right)
    /\ \A i \in DOMAIN stack : Int32Min <= stack[i] /\ stack[i] <= Int32Max
    /\ \A a \in DOMAIN heap : Int32Min <= heap[a] /\ heap[a] <= Int32Max

\* C13: IntegerDivision or Modulo executed with the right operand 0 on a stack
\* of at least two values pops both, pushes nothing and ends the run with a
\* fault that is none of the errors run() returns: the run is over, and no
\* instruction executes after it.
C13_DivisionByZero ==
    (Executed /\ last.instr.cmd \in {"IntegerDivision", "Modulo"}
              /\ Len(last.before.stack) >= 2 /\ Right = 0) =>
        /\ last.res = Panic
        /\ stack = Below
        /\ pc = "panicked"
        /\ result = Panic
        /\ result.kind \notin {"Ok", "ParseLogicError", "StackUnderflow",
                               "NumberOutOfBoundsError", "NoTermination", "StdinError"}

\* A division by zero with instructions left to execute.
C13_Witness ==
    /\ pc = "panicked"
    /\ last.instr = IntegerDivision
    /\ last.before.stack = <<1, 0>>
    /\ instruction_pointer + 1 < Len(instructions)

\* Label operands: the labels the parsed program names, and whether the
\* instruction at index i (0-based) refers to a label.
NamedLabels == {source[i].param.label : i \in {j \in DOMAIN source : source[j].param.kind = "Label"}}
Refers(i) == source[i + 1].cmd \in {"Call", "Jump", "JumpZero", "JumpNegative"}
Indices == 0..(Len(source) - 1)

\* C14: in a program in which every label named has exactly one Mark, every
\* Call, Jump, JumpZero and JumpNegative operand naming label l carries, after
\* resolution, the index of Mark(l), be the Mark before or after it; family,
\* command, operand kind and label of every instruction are as parsed.
C14_ResolutionOrderIndependent ==
    (\A l \in NamedLabels : Cardinality(MarkIndices(l)) = 1) =>
        /\ Len(instructions) = Len(source)
        /\ \A i \in Indices :
              /\ instructions[i + 1].imp = source[i + 1].imp
              /\ instructions[i + 1].cmd = source[i + 1].cmd
              /\ instructions[i + 1].param.kind = source[i + 1].param.kind
              /\ instructions[i + 1].param.num = source[i + 1].param.num
              /\ instructions[i + 1].param.label = source[i + 1].param.label
              /\ Refers(i) =>
                     instructions[i + 1].param.index = MarkIndex(source[i + 1].param.label)

\* A program with a reference behind its Mark and one ahead of its Mark.
C14_Witness ==
    /\ \A l \in NamedLabels : Cardinality(MarkIndices(l)) = 1
    /\ \E i, j \in Indices :
          /\ Refers(i) /\ MarkIndex(source[i + 1].param.label) > i
          /\ instructions[i + 1].param.index > i
          /\ Refers(j) /\ MarkIndex(source[j + 1].param.label) < j
          /\ instructions[j + 1].param.index < j

\* C15: when several Marks define one label, every operand naming that label,
\* wherever it stands, carries after resolution the index of the last of them,
\* and the interpreter is constructed as for any other program.
C15_LastMarkWins ==
    \A i \in Indices :
        (source[i + 1].param.kind = "Label"
            /\ Cardinality(MarkIndices(source[i + 1].param.label)) > 1) =>
            /\ instructions[i + 1].param.index = MarkIndex(source[i + 1].param.label)
            /\ \A j \in MarkIndices(source[i + 1].param.label) :
                   j <= instructions[i + 1].param.index
            /\ Len(instructions) = Len(source)

\* A reference ahead of two Marks of its label, resolved to the second.
C15_Witness ==
    /\ source = <<Jump("a"), Mark("a"), Push(1), Mark("a"), Exit>>
    /\ instructions[1].param.index = 3
    /\ pc = "returned"
    /\ stack = << >>

\* The last exec was a conditional jump that met a value fulfilling its
\* condition.
ConditionTrue ==
    \/ last.instr.cmd = "JumpZero" /\ Last(last.before.stack) = 0
    \/ last.instr.cmd = "JumpNegative" /\ Last(last.before.stack) < 0

\* C16: an operand naming a label without a Mark keeps its placeholder through
\* resolution; a JumpZero or JumpNegative with such an operand, executed on a
\* non-empty stack, fails with an error and transfers nowhere if its condition
\* is true, and succeeds if its condition is false.
C16_UnresolvedConditionalJump ==
    /\ \A i \in Indices :
          (source[i + 1].param.kind = "Label" /\ MarkIndices(source[i + 1].param.label) = {}) =>
              instructions[i + 1] = source[i + 1]
    /\ (Executed /\ last.instr.cmd \in {"JumpZero", "JumpNegative"}
                 /\ Len(last.before.stack) > 0
                 /\ MarkIndices(last.instr.param.label) = {}) =>
           IF ConditionTrue
           THEN Failed /\ instruction_pointer = last.before.instruction_pointer + 1
           ELSE last.res = Ok

\* The program reads input; the present run began in the reset state.
PerformsInput == \E i \in DOMAIN source : source[i].cmd \in {"ReadCharacter", "ReadInteger"}
FromResetState == run_steps = steps

\* C17: reset(), after a completed run or before any, leaves the stack and
\* the call stack empty, every heap cell 0 with the heap as long as
\* configured, the pointer 0, the termination flag cleared and the resolved
\* program as constructed; and a run() begun in the reset state after a reset
\* ends, for a program without input instructions, with the result and the
\* machine state with which the run before the reset ended (standard output
\* failing in one of the runs and the build's overflow panic set aside).
C17_ResetRestores ==
    /\ pc = "idle" => Machine = NewMachine(config.heap_size)
    /\ instructions = Resolve(source)
    /\ (RunOver /\ first_run.kept /\ FromResetState /\ ~PerformsInput
                /\ result # IoError /\ first_run.result # IoError) =>
           IF result = Panic
           THEN last.instr.cmd \in {"Add", "Subtract", "Multiply"}
                /\ ~HasValue(last.instr.cmd, Left, Right)
           ELSE /\ result = first_run.result
                /\ Machine = first_run.m

\* The second run of a program that had written the heap before the reset.
C17_Witness ==
    /\ pc = "returned"
    /\ first_run.kept
    /\ FromResetState
    /\ ~PerformsInput
    /\ first_run.m.heap # NewMachine(config.heap_size).heap
    /\ first_run.m.stack # << >>
    /\ result = first_run.result
    /\ Machine = first_run.m

\* The last two execs are a Push and the Discard executed right after it.
PushThenDiscard ==
    /\ prev.instr.cmd = "PushStack"
    /\ last.instr.cmd = "DiscardStack"
    /\ last.before.instruction_pointer = prev.before.instruction_pointer + 1

\* C18: Push(n) followed immediately by Discard: both succeed, and the operand
\* stack, the heap and the call stack are what they were before the Push.
C18_PushDiscardRoundTrip ==
    PushThenDiscard =>
        /\ prev.res = Ok
        /\ last.res = Ok
        /\ last.before.stack = Append(prev.before.stack, prev.instr.param.num)
        /\ stack = prev.before.stack
        /\ heap = prev.before.heap
        /\ call_stack = prev.before.call_stack

\* The smallest 32-bit integer pushed on a non-empty stack and discarded.
C18_Witness ==
    /\ PushThenDiscard
    /\ prev.instr.param.num = Int32Min
    /\ prev.before.stack = <<7>>
    /\ stack = <<7>>

\* C19: JumpZero and JumpNegative executed on a non-empty stack succeed and
\* pop exactly the top value v. If the condition holds (v = 0, v < 0) and the
\* label has a Mark, the pointer is one past the Mark; if it does not hold,
\* the pointer is one past the jump and the next instruction executed is the
\* one at that index.
C19_ConditionalJump ==
    /\ (Executed /\ last.instr.cmd \in {"JumpZero", "JumpNegative"}
                 /\ Len(last.before.stack) > 0) =>
           /\ last.res = Ok
           /\ stack = Front(last.before.stack)
           /\ (ConditionTrue /\ MarkIndex(last.instr.param.label) >= 0) =>
                  instruction_pointer = MarkIndex(last.instr.param.label) + 1
           /\ ~ConditionTrue =>
                  instruction_pointer = last.before.instruction_pointer + 1
    /\ (Executed /\ prev.instr.cmd \in {"JumpZero", "JumpNegative"} /\ prev.res = Ok
                 /\ Len(prev.before.stack) > 0
                 /\ ~(\/ prev.instr.cmd = "JumpZero" /\ Last(prev.before.stack) = 0
                      \/ prev.instr.cmd = "JumpNegative" /\ Last(prev.before.stack) < 0)) =>
           /\ last.before.instruction_pointer = prev.before.instruction_pointer + 1
           /\ last.instr = instructions[prev.before.instruction_pointer + 2]

\* A JumpNegative that met 0, went on, and the instruction after it executed.
C19_Witness ==
    /\ Executed
    /\ prev.instr.cmd = "JumpNegative"
    /\ Len(prev.before.stack) > 1
    /\ Last(prev.before.stack) = 0
    /\ MarkIndex(prev.instr.param.label) >= 0
    /\ last.instr = Exit
    /\ last.before.instruction_pointer = prev.before.instruction_pointer + 1

\* C20: an exec of the present run that returned an error ended the run:
\* run() has returned that error, and the pointer stands one past the failed
\* instruction, which executed last.
C20_FaultAbortsRun ==
    (Failed /\ run_steps > 0) =>
        /\ pc = "returned"
        /\ result = last.res
        /\ instruction_pointer = last.before.instruction_pointer + 1

\* A run ended by an error with instructions left to execute.
C20_Witness ==
    /\ Failed
    /\ run_steps > 1
    /\ pc = "returned"
    /\ last.res.kind = "NumberOutOfBoundsError"
    /\ instruction_pointer < Len(instructions)
    /\ ~done

\* The machine is terminal: the termination flag is set, or the pointer is at
\* or past the end of the program.
Terminal(m) == m.done \/ m.instruction_pointer >= Len(instructions)

\* C21: a terminal machine executes nothing. Every exec found the machine not
\* terminal; while the termination flag is set the Exit that set it is the
\* last instruction executed, wherever the pointer stands, and only reset()
\* clears the flag; next_instruction() is None in a terminal machine; a run()
\* entered with a terminal machine returns without an exec.
C21_TerminalMachine ==
    /\ Executed => ~Terminal(last.before)
    /\ done => (ExecutedOk("Exit") /\ pc # "idle")
    /\ Terminal(Machine) => (~HasNext /\ next_instruction = NoInstr)
    /\ (ExecutedOk("Exit") /\ pc # "idle") => done
    /\ (RunOver /\ run_steps = 0 /\ steps > 0) => Terminal(Machine)

\* A run() entered after an Exit in the middle of the program: it returned
\* without executing anything.
C21_Witness ==
    /\ pc = "returned"
    /\ done
    /\ instruction_pointer < Len(instructions)
    /\ steps > 0
    /\ run_steps = 0
    /\ result = Ok

\* C22: with standard output working, OutCharacter on a non-empty stack pops
\* exactly one value, fails with the Bounds-violation if the value is negative
\* and succeeds otherwise; OutInteger on a non-empty stack pops exactly one
\* value and succeeds; neither changes the heap or the call stack.
C22_OutputInstructions ==
    (Executed /\ last.instr.cmd \in {"OutCharacter", "OutInteger"}
              /\ Len(last.before.stack) > 0 /\ last.res # IoError) =>
        /\ stack = Front(last.before.stack)
        /\ heap = last.before.heap
        /\ call_stack = last.before.call_stack
        /\ IF last.instr.cmd = "OutCharacter" /\ Last(last.before.stack) < 0
           THEN last.res = NumberOutOfBoundsError(last.instr, Last(last.before.stack),
                                                  0, Int32Max)
           ELSE last.res = Ok

\* C23: an instruction executed with at least as many operand-stack values as
\* it pops (a Return: with a non-empty call stack) does not fail with the
\* Stack-underflow error.
C23_UnderflowOnlyWhenUnderfed ==
    (Executed /\ ~Underfed) => last.res.kind # "StackUnderflow"

\* Every label the program names has a Mark.
AllResolved == \A l \in NamedLabels : MarkIndices(l) # {}

\* C24: in a program whose labels all have a Mark, from the reset state on
\* (before, during and after run()), the pointer is at most the program's
\* length, every call-stack entry is the index of a Call instruction of the
\* program, and the heap is as long as configured.
C24_MachineInvariant ==
    (AllResolved /\ FromResetState) =>
        /\ 0 <= instruction_pointer /\ instruction_pointer <= Len(instructions)
        /\ \A i \in DOMAIN call_stack :
              /\ 0 <= call_stack[i] /\ call_stack[i] < Len(instructions)
              /\ instructions[call_stack[i] + 1].cmd = "Call"
        /\ Len(heap) = config.heap_size

\* Nested calls in progress.
C24_Witness ==
    /\ AllResolved
    /\ FromResetState
    /\ pc = "running"
    /\ Len(call_stack) = 2
    /\ call_stack[1] # call_stack[2]
    /\ instruction_pointer > call_stack[2] + 1

\* The same program run from the reset state under the other setting of
\* suppress_output.
OtherSetting ==
    Run(NewMachine(config.heap_size), instructions, ~config.suppress_output, MaxSteps)

\* C25: a run() from the reset state of a program without input instructions,
\* with standard output working, ends with the same result and the same
\* operand stack, call stack, heap and pointer as the run of the same program
\* under the other setting of suppress_output.
C25_SuppressionUnobservable ==
    (pc = "returned" /\ FromResetState /\ ~PerformsInput /\ result # IoError
                    /\ OtherSetting.kept) =>
        /\ OtherSetting.result = result
        /\ OtherSetting.m = Machine

\* Where the last exec's handler left the pointer: at the operand's index for
\* a successful Jump or Call and a conditional jump whose condition held, at
\* the popped frame for a successful Return, where it stood otherwise.
HandlerTarget ==
    IF last.res = Ok /\ last.instr.cmd \in {"Jump", "Call"}
    THEN last.instr.param.index
    ELSE IF last.res = Ok /\ last.instr.cmd \in {"JumpZero", "JumpNegative"} /\ ConditionTrue
         THEN last.instr.param.index
         ELSE IF last.res = Ok /\ last.instr.cmd = "Return"
              THEN Last(last.before.call_stack)
              ELSE last.before.instruction_pointer

\* C26: an exec of a Stack or Arithmetic instruction leaves heap and call
\* stack; of a Heap or IO instruction, the call stack; of Mark, Jump and Exit,
\* operand stack, call stack and heap; the call stack changes only in an exec
\* of Call or Return; no exec changes the program; and every exec that
\* returns, with Ok or with an error, leaves the pointer one past where its
\* handler left it.
C26_FrameEffects ==
    /\ instructions = Resolve(source)
    /\ Executed =>
           /\ last.instr.imp \in {"Stack", "Arithmetic"} =>
                  (heap = last.before.heap /\ call_stack = last.before.call_stack)
           /\ last.instr.imp \in {"Heap", "IO"} => call_stack = last.before.call_stack
           /\ last.instr.cmd \in {"Mark", "Jump", "Exit"} =>
                  /\ stack = last.before.stack
                  /\ call_stack = last.before.call_stack
                  /\ heap = last.before.heap
           /\ call_stack # last.before.call_stack => last.instr.cmd \in {"Call", "Return"}
           /\ last.res # Panic => instruction_pointer = HandlerTarget + 1

\* A Store that failed during a call: the frame stays, the pointer advances.
C26_Witness ==
    /\ Failed
    /\ last.instr.cmd = "StoreHeap"
    /\ call_stack # << >>
    /\ call_stack = last.before.call_stack
    /\ instruction_pointer = last.before.instruction_pointer + 1

====
